---- MODULE Spec2Model ----
(***************************************************************************)
(* Online QRS detector (qrs_detector_online/QRSDetector.py).               *)
(*                                                                         *)
(* Units.  Python floats are modelled in fixed point:                      *)
(*   - a measurement is an integer number of millivolts (1 V = 1000);      *)
(*   - the integrated signal and the three levels signal_peak_value,       *)
(*     noise_peak_value and threshold_value are integers in mV^2, that is  *)
(*     1 unit = 1.e-6 V^2, so the padding epsilon 1.e-6 of findpeaks is    *)
(*     exactly 1 unit and findpeaks_limit 0.40 is 400000 units;            *)
(*   - a product with a fractional factor is rounded toward zero, where    *)
(*     the float arithmetic rounds to the nearest double.                  *)
(***************************************************************************)
EXTENDS Integers, Sequences, FiniteSets, TLC

(***************************************************************************)
(* Configuration parameters, QRSDetector.__init__.                         *)
(***************************************************************************)
number_of_samples_stored == 200
filter_lowcut == 0
filter_highcut == 15
filter_order == 1
integration_window == 15
findpeaks_limit == 400000
findpeaks_spacing == 50
refractory_period == 120
detection_window == 40
\* 0.125, 0.125 and 0.25 as fractions FactorNum / FactorDen
signal_peak_filtering_factor == 8
noise_peak_filtering_factor == 8
signal_noise_diff_weight == 4
\* "if measurement > 10": 10 V in millivolts
measurement_ceiling == 10000
\* the 1.e-6 of findpeaks' padding, in units of 1.e-6
findpeaks_epsilon == 1
\* signal_freq of the program's entry point
default_signal_freq == 255

(***************************************************************************)
(* Bounds of the model.                                                    *)
(***************************************************************************)
MaxSamples == 295
GlitchEvery == 50

(***************************************************************************)
(* Arithmetic helpers.                                                     *)
(***************************************************************************)
\* integer quotient rounded toward zero
TruncDiv(a, b) == IF a >= 0 THEN a \div b ELSE -((-a) \div b)

RECURSIVE SumRange(_, _, _)
\* s[lo] + ... + s[hi]
SumRange(s, lo, hi) == IF lo > hi THEN 0 ELSE s[lo] + SumRange(s, lo + 1, hi)

Max(a, b) == IF a >= b THEN a ELSE b
Min(a, b) == IF a <= b THEN a ELSE b

(***************************************************************************)
(* bandpass_filter: butter(filter_order, [low, high], btype="band")        *)
(* followed by lfilter(b, a, data).                                        *)
(*                                                                         *)
(* butter raises ValueError unless both normalised cutoffs lie in [0, 1]   *)
(* (the SciPy release the program was written for; later releases also     *)
(* refuse 0 and 1).  nyquist_freq = 0.5 * signal_freq, so                  *)
(* cutoff / nyquist_freq = 2 * cutoff / signal_freq; the division raises   *)
(* ZeroDivisionError when signal_freq = 0.                                 *)
(***************************************************************************)
FilterError(lowcut, highcut, signal_freq) ==
    IF signal_freq = 0 THEN "ZeroDivisionError"
    ELSE IF signal_freq < 0 THEN "ValueError"
    ELSE IF 2 * lowcut < 0 \/ 2 * lowcut > signal_freq THEN "ValueError"
    ELSE IF 2 * highcut < 0 \/ 2 * highcut > signal_freq THEN "ValueError"
    ELSE IF lowcut >= highcut THEN "ValueError"
    ELSE "none"

(***************************************************************************)
(* For order 1, low = 0 and high = 15 / 127.5 butter returns               *)
(*   b = [K, 0, -K],  a = [1, -(1 + p), p]                                 *)
(* with K = bw / (4 + bw), p = (4 - bw) / (4 + bw), bw = 4 tan(pi high/2), *)
(* that is K = 0.1575 and p = 0.6850.  Numerator and denominator share the *)
(* factor (1 - z^-1), so from lfilter's zero initial state the output is   *)
(*   y[n] = K * (x[n] + x[n-1]) + p * y[n-1].                              *)
(* FilterGain / FilterDen = K and FilterPole / FilterDen = p.              *)
(***************************************************************************)
FilterGain == 315
FilterPole == 1370
FilterDen == 2000

\* F applied to the value of x, which is evaluated once
Apply(F(_), x) == CHOOSE r \in { F(v) : v \in {x} } : TRUE

\* the function f with domain 1 .. n as a sequence
AsSeq(f, n) == SubSeq(f, 1, n)

\* one step of lfilter: y[n] from x[n], x[n-1] and y1 = y[n-1]
lfilter_step(data, n, y1) ==
    TruncDiv(FilterGain * (data[n] + (IF n = 1 THEN 0 ELSE data[n - 1]))
                 + FilterPole * y1, FilterDen)

RECURSIVE lfilter(_, _, _, _)
\* y[lo .. hi], given y1 = y[lo - 1]; the range is filtered by halves, the
\* second half starting from the last output of the first
lfilter(data, lo, hi, y1) ==
    IF lo > hi THEN <<>>
    ELSE IF lo = hi THEN <<lfilter_step(data, lo, y1)>>
    ELSE LET mid == (lo + hi) \div 2
             rest(first) == first \o lfilter(data, mid + 1, hi, first[Len(first)])
         IN Apply(rest, lfilter(data, lo, mid, y1))

bandpass_filter(data) == lfilter(data, 1, Len(data), 0)

\* np.ediff1d: out[i] = in[i+1] - in[i]
ediff1d(s) == AsSeq([i \in 1 .. (Len(s) - 1) |-> s[i + 1] - s[i]], Len(s) - 1)

\* elementwise square
square(s) == AsSeq([i \in 1 .. Len(s) |-> s[i] * s[i]], Len(s))

\* the convolution in mode "same": as long as s, centred
convolve_same(s, w) ==
    IF Len(s) = 0 THEN <<>>
    ELSE AsSeq([k \in 1 .. Len(s) |->
                    SumRange(s, Max(1, k + (w - 1) \div 2 - w + 1),
                             Min(Len(s), k + (w - 1) \div 2))],
               Len(s))

\* np.convolve(s, np.ones(w)), mode "full": length Len(s) + w - 1
convolve_ones(s, w) ==
    IF Len(s) = 0 THEN <<>>
    ELSE AsSeq([k \in 1 .. (Len(s) + w - 1) |->
                    SumRange(s, Max(1, k - w + 1), Min(Len(s), k))],
               Len(s) + w - 1)

integrate(window) ==
    LET integration(squared) == convolve_ones(squared, integration_window)
        squaring(differentiated) == Apply(integration, square(differentiated))
        derivative(filtered) == Apply(squaring, ediff1d(filtered))
    IN Apply(derivative, bandpass_filter(window))

(***************************************************************************)
(* findpeaks(data, spacing, limit).  Indices are numpy's, from 0:          *)
(* data[i] of the code is data[i + 1] here.                                *)
(***************************************************************************)
\* x: data padded by spacing values at each end; x[j] of the code, j from 0
padded(data, spacing, j) ==
    IF j < spacing THEN data[1] - findpeaks_epsilon
    ELSE IF j >= spacing + Len(data) THEN data[Len(data)] - findpeaks_epsilon
    ELSE data[j - spacing + 1]

\* the comparison with the values after not strict: "h_c >= h_a"
peak_candidate_nonstrict(data, spacing, i) ==
    \A s \in 0 .. (spacing - 1) :
        /\ padded(data, spacing, spacing + i) > padded(data, spacing, spacing - s - 1 + i)
        /\ padded(data, spacing, spacing + i) >= padded(data, spacing, spacing + s + 1 + i)

\* one offset short: "for s in range(spacing - 1)"
peak_candidate_short(data, spacing, i) ==
    \A s \in 0 .. (spacing - 2) :
        /\ padded(data, spacing, spacing + i) > padded(data, spacing, spacing - s - 1 + i)
        /\ padded(data, spacing, spacing + i) > padded(data, spacing, spacing + s + 1 + i)

\* the loop "for s in range(spacing)" over h_b, h_c, h_a
peak_candidate(data, spacing, i) ==
    \A s \in 0 .. (spacing - 1) :
        /\ padded(data, spacing, spacing + i) > padded(data, spacing, spacing - s - 1 + i)
        /\ padded(data, spacing, spacing + i) > padded(data, spacing, spacing + s + 1 + i)

\* findpeaks without its "if limit is not None" filter
findpeaks_no_limit(data, spacing, limit) ==
    SelectSeq([k \in 1 .. Len(data) |-> k - 1],
              LAMBDA i : peak_candidate(data, spacing, i))

\* ascending sequence of the indices i (from 0) that pass
findpeaks(data, spacing, limit) ==
    SelectSeq([k \in 1 .. Len(data) |-> k - 1],
              LAMBDA i : peak_candidate(data, spacing, i) /\ data[i + 1] > limit)

(***************************************************************************)
(* State.                                                                  *)
(***************************************************************************)
VARIABLES
    signal_freq,                   \* constructor argument signal_freq
    most_recent_measurements,      \* deque([0], number_of_samples_stored)
    time_since_last_detected_qrs,  \* samples
    signal_peak_value,
    noise_peak_value,
    threshold_value,
    raised,         \* exception that left process_measurement, or "none"
    ingested,       \* history: the measurements appended to the window, in order
    detections,     \* history: Len(ingested) at each handle_detection call
    call,           \* history: what the last process_measurement call did
    sent,           \* input stream: the pulses begun so far, each with the
                    \*   number of baseline samples before it
    quiet,          \* input stream: baseline samples since the last pulse
    pending,        \* input stream: samples of the current pulse still to come
    twin            \* the fields of a second QRSDetector given the same lines,
                    \*   NoTwin where there is one detector only

levels == <<signal_peak_value, noise_peak_value, threshold_value>>
engine == <<most_recent_measurements, time_since_last_detected_qrs, levels>>
history == <<ingested, detections, call>>
stream == <<sent, quiet, pending>>
vars == <<signal_freq, engine, raised, history, stream, twin>>

\* number of accepted samples
accepted == Len(ingested)

(***************************************************************************)
(* Raw lines of the serial port.  A line is its decodability and, once     *)
(* decoded, stripped and split at ';', its fields; a field is the text of  *)
(* a number (with the number float() returns) or some other text.          *)
(***************************************************************************)
Num(v) == [text |-> "number", value |-> v]
Junk == [text |-> "other", value |-> 0]
Line(fields) == [decodable |-> TRUE, fields |-> fields]
Undecodable == [decodable |-> FALSE, fields |-> <<>>]
Measurement(v) == Line(<<Num(0), Num(v)>>)

\* float(field) succeeds
is_float(field) == field.text = "number"

\* "if measurement > 10: return"
out_of_range(measurement) == measurement > measurement_ceiling

\* deque([0], ...): the window is created holding one 0
initial_measurements == <<0>>

\* a deque whose maxlen is one too large
deque_append_one_more(deque, x) ==
    IF Len(deque) <= number_of_samples_stored THEN Append(deque, x)
    ELSE Append(Tail(deque), x)

\* deque.append with maxlen = number_of_samples_stored
deque_append(deque, x) ==
    IF Len(deque) < number_of_samples_stored THEN Append(deque, x)
    ELSE Append(Tail(deque), x)

(***************************************************************************)
(* extract_peaks: the arguments it hands to detect_qrs.                    *)
(***************************************************************************)
\* detected_peaks_indices[detected_peaks_indices > 200 - 40]
recent_peaks(indices) ==
    SelectSeq(indices, LAMBDA i : i > number_of_samples_stored - detection_window)

extract_peaks(window) ==
    LET peaks_of(integrated_signal) ==
            LET restricted(found) ==
                    LET detected_peaks_indices == recent_peaks(found)
                    IN [integrated_length |-> Len(integrated_signal),
                        found |-> found,
                        indices |-> detected_peaks_indices,
                        values |-> [k \in 1 .. Len(detected_peaks_indices) |->
                                      integrated_signal[detected_peaks_indices[k] + 1]]]
            IN Apply(restricted,
                     findpeaks(integrated_signal, findpeaks_spacing, findpeaks_limit))
    IN Apply(peaks_of, integrate(window))

(***************************************************************************)
(* detect_qrs.                                                             *)
(***************************************************************************)
\* a refractory test that lets the last refractory sample through
eligible_one_early(time) == time >= refractory_period

\* the refractory test left out
eligible_regardless(time) == TRUE

\* "if self.time_since_last_detected_qrs > self.refractory_period"
eligible(time) == time > refractory_period

\* the comparison turned round
is_signal_peak_reversed(value, threshold) == value < threshold

\* "if most_recent_peak_value > self.threshold_value"
is_signal_peak(value, threshold) == value > threshold

\* a detection that forgets to restart the count
time_kept(time) == time

\* "self.time_since_last_detected_qrs = 0", time being the count it replaces
time_after_detection(time) == 0

\* the two weights exchanged
filtered_level_swapped(factor_den, peak, level) ==
    TruncDiv((factor_den - 1) * peak + level, factor_den)

\* factor * peak + (1 - factor) * level, factor = 1 / factor_den
filtered_level(factor_den, peak, level) ==
    TruncDiv(peak + (factor_den - 1) * level, factor_den)

\* the noise level left out of the threshold
threshold_of_signal(noise, signal) ==
    TruncDiv(signal, signal_noise_diff_weight)

\* noise + weight * (signal - noise), weight = 1 / signal_noise_diff_weight
threshold_of(noise, signal) ==
    noise + TruncDiv(signal - noise, signal_noise_diff_weight)

\* the first candidate of the list taken instead of the last
oldest(peaks) == peaks[1]

\* "detected_peaks_values[-1]"
most_recent(peaks) == peaks[Len(peaks)]

detect_qrs(time, signal, noise, threshold, indices, values) ==
    LET t == time + 1
        unchanged(outcome) ==
            [time |-> t, signal |-> signal, noise |-> noise,
             threshold |-> threshold, detected |-> FALSE, outcome |-> outcome]
    IN IF ~eligible(t) THEN unchanged("refractory")
       ELSE IF Len(indices) = 0 THEN unchanged("no_peak")
       ELSE LET most_recent_peak_value == most_recent(values)
            IN IF is_signal_peak(most_recent_peak_value, threshold)
               THEN LET s == filtered_level(signal_peak_filtering_factor,
                                            most_recent_peak_value, signal)
                    IN [time |-> time_after_detection(t), signal |-> s,
                        noise |-> noise, threshold |-> threshold_of(noise, s),
                        detected |-> TRUE, outcome |-> "SIGNAL"]
               ELSE LET n == filtered_level(noise_peak_filtering_factor,
                                            most_recent_peak_value, noise)
                    IN [time |-> t, signal |-> signal, noise |-> n,
                        threshold |-> threshold_of(n, signal),
                        detected |-> FALSE, outcome |-> "NOISE"]

(***************************************************************************)
(* process_measurement(raw_measurement), one iteration of the reading      *)
(* loop of connect_to_ecg.  call records the line, what became of it       *)
(* (outcome) and, when a pipeline pass ran, what extract_peaks found.      *)
(***************************************************************************)
NoPeaks == [integrated_length |-> 0, found |-> <<>>, indices |-> <<>>, values |-> <<>>]

Returned(raw, outcome) ==
    /\ call' = [line |-> raw, outcome |-> outcome, peaks |-> NoPeaks]
    /\ UNCHANGED <<signal_freq, engine, raised, ingested, detections>>

process_measurement(raw) ==
    IF ~raw.decodable
    THEN \* raw_measurement.decode() raises, outside the try block
         /\ raised' = "UnicodeDecodeError"
         /\ call' = [line |-> raw, outcome |-> "raised", peaks |-> NoPeaks]
         /\ UNCHANGED <<signal_freq, engine, ingested, detections>>
    ELSE IF Len(raw.fields) # 2 THEN Returned(raw, "malformed")
    ELSE IF ~is_float(raw.fields[1]) \/ ~is_float(raw.fields[2])
         THEN Returned(raw, "malformed")
    ELSE IF out_of_range(raw.fields[2].value) THEN Returned(raw, "rejected")
    ELSE \E window \in {deque_append(most_recent_measurements, raw.fields[2].value)} :
         LET error == FilterError(filter_lowcut, filter_highcut, signal_freq)
         IN /\ most_recent_measurements' = window
            /\ ingested' = Append(ingested, raw.fields[2].value)
            /\ UNCHANGED signal_freq
            /\ IF error # "none"
               THEN \* butter raises inside bandpass_filter
                    /\ raised' = error
                    /\ call' = [line |-> raw, outcome |-> "raised", peaks |-> NoPeaks]
                    /\ UNCHANGED <<time_since_last_detected_qrs, levels, detections>>
               ELSE \E peaks \in {extract_peaks(window)} :
                    \E r \in {detect_qrs(time_since_last_detected_qrs,
                                         signal_peak_value, noise_peak_value,
                                         threshold_value, peaks.indices, peaks.values)} :
                       /\ time_since_last_detected_qrs' = r.time
                       /\ signal_peak_value' = r.signal
                       /\ noise_peak_value' = r.noise
                       /\ threshold_value' = r.threshold
                       /\ detections' = IF r.detected
                                        THEN Append(detections, accepted + 1)
                                        ELSE detections
                       /\ call' = [line |-> raw, outcome |-> r.outcome, peaks |-> peaks]
                       /\ UNCHANGED raised

\* a detector that starts with its refractory period over
initial_time_eligible == refractory_period

\* "self.time_since_last_detected_qrs = 0" of __init__
initial_time_since_last_detected_qrs == 0

(***************************************************************************)
(* A second QRSDetector, constructed with the same arguments and given     *)
(* each line after the first detector has processed it.  Its fields are    *)
(* the record twin; process_measurement is the same code run on them.      *)
(***************************************************************************)
NoTwin == [constructed |-> FALSE]

\* the fields of the second instance as __init__ leaves them
Constructed2(freq) ==
    [constructed |-> TRUE,
     signal_freq |-> freq,
     most_recent_measurements |-> initial_measurements,
     time_since_last_detected_qrs |-> initial_time_since_last_detected_qrs,
     signal_peak_value |-> 0,
     noise_peak_value |-> 0,
     threshold_value |-> 0,
     raised |-> "none",
     accepted |-> 0,
     detections |-> <<>>]

\* one deque for all instances, as a class attribute would be
deque_shared(own, other) == other

\* the deque an instance appends to: the one its own __init__ created
deque_of(own, other) == own

\* process_measurement(raw) on the fields of the second instance; other is
\* the deque of the first
process_measurement2(self, raw, other) ==
    IF ~raw.decodable THEN [self EXCEPT !.raised = "UnicodeDecodeError"]
    ELSE IF Len(raw.fields) # 2 THEN self
    ELSE IF ~is_float(raw.fields[1]) \/ ~is_float(raw.fields[2]) THEN self
    ELSE IF out_of_range(raw.fields[2].value) THEN self
    ELSE LET appended(window) ==
                 LET accepted2 == [self EXCEPT !.most_recent_measurements = window,
                                               !.accepted = @ + 1]
                     error == FilterError(filter_lowcut, filter_highcut, self.signal_freq)
                     classified(peaks) ==
                         LET updated(r) ==
                                 [accepted2 EXCEPT
                                     !.time_since_last_detected_qrs = r.time,
                                     !.signal_peak_value = r.signal,
                                     !.noise_peak_value = r.noise,
                                     !.threshold_value = r.threshold,
                                     !.detections = IF r.detected
                                                    THEN Append(@, self.accepted + 1)
                                                    ELSE @]
                         IN Apply(updated,
                                  detect_qrs(self.time_since_last_detected_qrs,
                                             self.signal_peak_value,
                                             self.noise_peak_value,
                                             self.threshold_value,
                                             peaks.indices, peaks.values))
                 IN IF error # "none"
                    THEN [accepted2 EXCEPT !.raised = error]
                    ELSE Apply(classified, extract_peaks(window))
         IN Apply(appended,
                  deque_append(deque_of(self.most_recent_measurements, other),
                               raw.fields[2].value))

\* the line raw is read and given to the detector, then to the second
\* detector where there is one
Deliver(raw) ==
    /\ process_measurement(raw)
    /\ IF twin = NoTwin
       THEN twin' = twin
       ELSE \E after \in {process_measurement2(twin, raw, most_recent_measurements')} :
               twin' = after

(***************************************************************************)
(* The input stream: a baseline of 0 V carrying pulses, and lines the      *)
(* detector has to drop.                                                   *)
(***************************************************************************)
SmallPulse == <<3000>>
LowPulse == <<2000>>
BigPulse == <<10000, 10000, 10000, 10000>>
NegativePulse == <<-11000>>
PulseShapes == {SmallPulse, LowPulse, BigPulse, NegativePulse}
\* baseline samples before the first pulse, and between two pulses
FirstPulseAfter == {100, 150}
PulseGaps == {refractory_period - 1, refractory_period}
SignalFreqs == {default_signal_freq, 20, 0}

GlitchLines ==
    { Undecodable,
      Line(<<Junk>>),
      Line(<<Num(0), Num(0), Num(0)>>),
      Line(<<Num(0), Junk>>),
      Line(<<Junk, Num(0)>>),
      Measurement(measurement_ceiling + 1),
      Measurement(2 * measurement_ceiling) }

Running == raised = "none" /\ accepted < MaxSamples

\* the next baseline sample
ReadBaseline ==
    /\ Running
    /\ pending = <<>>
    /\ Deliver(Measurement(0))
    /\ quiet' = quiet + 1
    /\ UNCHANGED <<sent, pending>>

\* the first sample of a pulse
ReadPulse ==
    /\ Running
    /\ pending = <<>>
    /\ quiet \in (IF sent = <<>> THEN FirstPulseAfter ELSE PulseGaps)
    /\ \E shape \in PulseShapes :
          /\ Deliver(Measurement(Head(shape)))
          /\ sent' = Append(sent, [shape |-> shape, after |-> quiet])
          /\ pending' = Tail(shape)
    /\ quiet' = 0

\* the next sample of the pulse under way
ReadPulseRest ==
    /\ Running
    /\ pending # <<>>
    /\ Deliver(Measurement(Head(pending)))
    /\ pending' = Tail(pending)
    /\ UNCHANGED <<sent, quiet>>

\* a line that is malformed, undecodable or above the ceiling
ReadGlitch ==
    /\ Running
    /\ accepted % GlitchEvery = 0
    /\ \E raw \in GlitchLines : Deliver(raw)
    /\ UNCHANGED stream

\* the fields as __init__ leaves them, before connect_to_ecg
Constructed(freq) ==
    /\ signal_freq = freq
    /\ most_recent_measurements = initial_measurements
    /\ time_since_last_detected_qrs = initial_time_since_last_detected_qrs
    /\ signal_peak_value = 0
    /\ noise_peak_value = 0
    /\ threshold_value = 0
    /\ raised = "none"
    /\ ingested = <<>>
    /\ detections = <<>>
    /\ call = [line |-> Measurement(0), outcome |-> "init", peaks |-> NoPeaks]
    /\ sent = <<>>
    /\ quiet = 0
    /\ pending = <<>>

Init == Constructed(default_signal_freq) /\ twin = NoTwin

Next == ReadBaseline \/ ReadPulse \/ ReadPulseRest \/ ReadGlitch

\* the detector as the entry point constructs it
Spec == Init /\ [][Next]_vars

\* the detector constructed with any signal_freq
InitConfig == (\E freq \in SignalFreqs : Constructed(freq)) /\ twin = NoTwin

SpecConfig == InitConfig /\ [][Next]_vars

\* two detectors constructed alike and given the same lines
InitTwin ==
    /\ Constructed(default_signal_freq)
    /\ twin = Constructed2(default_signal_freq)

SpecTwin == InitTwin /\ [][Next]_vars

(***************************************************************************)
(* Vocabulary of the properties.                                           *)
(***************************************************************************)
Abs(x) == IF x >= 0 THEN x ELSE -x

\* accepted at the last detection, 0 when there has been none
LastDetection == IF detections = <<>> THEN 0 ELSE detections[Len(detections)]

\* the last n elements of s
LastOf(s, n) == SubSeq(s, Len(s) - n + 1, Len(s))

\* a line of two numeric fields: a parsed sample
IsSample(line) ==
    /\ line.decodable
    /\ Len(line.fields) = 2
    /\ \A k \in 1 .. 2 : line.fields[k].text = "number"

SampleValue(line) == line.fields[2].value

\* the largest value of the integrated signal of a pulse on a flat baseline
PulsePeak(shape) ==
    LET flat == [k \in 1 .. findpeaks_spacing |-> 0]
        integrated == integrate(flat \o shape \o flat)
    IN CHOOSE m \in {integrated[k] : k \in 1 .. Len(integrated)} :
          \A k \in 1 .. Len(integrated) : integrated[k] <= m

InCeiling(shape) == \A k \in 1 .. Len(shape) : Abs(shape[k]) <= measurement_ceiling

\* pulses within the ceiling whose peak exceeds, or stays at or below, the floor
CleanPulses == {shape \in PulseShapes : InCeiling(shape) /\ PulsePeak(shape) > findpeaks_limit}
LowPulses == {shape \in PulseShapes : InCeiling(shape) /\ PulsePeak(shape) <= findpeaks_limit}

\* new = 0.125 * peak + 0.875 * old, to the resolution of the levels
IsFilteredLevel(new, peak, old) ==
    /\ 8 * new <= peak + 7 * old
    /\ peak + 7 * old < 8 * new + 8

(***************************************************************************)
(* C1: between two consecutive detections more than refractory_period      *)
(* samples are accepted: no detection on any of the refractory_period      *)
(* accepted samples that follow a detection.                               *)
(***************************************************************************)
C1_RefractoryGap ==
    \A i \in 1 .. (Len(detections) - 1) :
        detections[i + 1] - detections[i] > refractory_period

\* two detections exactly refractory_period + 1 samples apart
C1_Witness ==
    /\ Len(detections) >= 2
    /\ detections[2] - detections[1] = refractory_period + 1

(***************************************************************************)
(* C2 as stated: the window holds at most number_of_samples_stored values  *)
(* and exactly the last min(k, number_of_samples_stored) of the k accepted *)
(* samples, nothing else.                                                  *)
(***************************************************************************)
C2_WindowIsLastAccepted ==
    /\ Len(most_recent_measurements) <= number_of_samples_stored
    /\ most_recent_measurements =
           LastOf(ingested, Min(accepted, number_of_samples_stored))

(***************************************************************************)
(* C2 amended: the window holds at most number_of_samples_stored values:   *)
(* the last min(k + 1, number_of_samples_stored) of the initial 0 followed *)
(* by the k accepted samples, in arrival order; once                       *)
(* number_of_samples_stored samples have been accepted it is exactly the   *)
(* last number_of_samples_stored of them.                                  *)
(***************************************************************************)
C2_WindowIsSeedThenAccepted ==
    /\ Len(most_recent_measurements) <= number_of_samples_stored
    /\ most_recent_measurements =
           LastOf(initial_measurements \o ingested,
                  Min(accepted + 1, number_of_samples_stored))
    /\ accepted >= number_of_samples_stored =>
           most_recent_measurements = LastOf(ingested, number_of_samples_stored)

\* the window has slid: more samples accepted than it holds, a pulse inside
C2_Witness ==
    /\ accepted > number_of_samples_stored
    /\ Len(most_recent_measurements) = number_of_samples_stored
    /\ \E k \in 1 .. number_of_samples_stored : most_recent_measurements[k] # 0

(***************************************************************************)
(* C3 as stated: a parsed sample with |value| > 10 is rejected, leaving    *)
(* the window, the count and the three levels unchanged and triggering no  *)
(* pass; a parsed sample with |value| <= 10 is appended to the window.     *)
(***************************************************************************)
C3_OutsideCeilingRejected ==
    [][IsSample(call'.line) =>
          IF Abs(SampleValue(call'.line)) > measurement_ceiling
          THEN /\ call'.outcome = "rejected"
               /\ UNCHANGED <<engine, ingested, detections>>
          ELSE ingested' = Append(ingested, SampleValue(call'.line))]_vars

(***************************************************************************)
(* C4 as stated: a malformed line (wrong number of fields, a field that is *)
(* no number, undecodable bytes) is dropped: no exception leaves           *)
(* process_measurement and the detector state is unchanged.                *)
(***************************************************************************)
C4_MalformedDropped ==
    [][~IsSample(call'.line) =>
          /\ raised' = "none"
          /\ UNCHANGED <<engine, ingested, detections>>]_vars

(***************************************************************************)
(* C5 as stated: a filter-configuration error is raised at construction,   *)
(* before any sample is ingested, never while ingesting.                   *)
(***************************************************************************)
C5_ConfigErrorBeforeSamples ==
    raised \in {"ValueError", "ZeroDivisionError"} =>
        /\ accepted = 0
        /\ most_recent_measurements = initial_measurements

(***************************************************************************)
(* C6: time_since_last_detected_qrs is the number of samples accepted      *)
(* since the last SIGNAL classification (since construction if none): it   *)
(* is never negative and is 0 right after a SIGNAL classification.         *)
(***************************************************************************)
C6_CountSinceLastSignal ==
    /\ time_since_last_detected_qrs = accepted - LastDetection
    /\ time_since_last_detected_qrs >= 0
    /\ call.outcome = "SIGNAL" => time_since_last_detected_qrs = 0

\* the count has run through a whole refractory period after a detection
C6_Witness ==
    /\ detections # <<>>
    /\ call.outcome = "refractory"
    /\ time_since_last_detected_qrs = refractory_period

(***************************************************************************)
(* C7: on an eligible pass with candidates the last candidate is SIGNAL    *)
(* iff its value exceeds the threshold_value of before the pass.  SIGNAL:  *)
(* one detection, signal_peak_value filtered, noise_peak_value unchanged.  *)
(* NOISE: no detection, noise_peak_value filtered, signal_peak_value       *)
(* unchanged, the count the incremented one.                               *)
(***************************************************************************)
C7_Classification ==
    [][LET outcome == call'.outcome
           values == call'.peaks.values
           peak == values[Len(values)]
       IN /\ ( /\ outcome \in {"refractory", "no_peak", "SIGNAL", "NOISE"}
               /\ time_since_last_detected_qrs + 1 > refractory_period
               /\ Len(values) > 0 )
             => outcome = (IF peak > threshold_value THEN "SIGNAL" ELSE "NOISE")
          /\ outcome = "SIGNAL" =>
               /\ detections' = Append(detections, accepted + 1)
               /\ IsFilteredLevel(signal_peak_value', peak, signal_peak_value)
               /\ noise_peak_value' = noise_peak_value
          /\ outcome = "NOISE" =>
               /\ detections' = detections
               /\ IsFilteredLevel(noise_peak_value', peak, noise_peak_value)
               /\ signal_peak_value' = signal_peak_value
               /\ time_since_last_detected_qrs' = time_since_last_detected_qrs + 1]_vars

\* a peak above the floor classified NOISE, after an earlier detection
C7_Witness ==
    /\ call.outcome = "NOISE"
    /\ detections # <<>>
    /\ noise_peak_value > 0

(***************************************************************************)
(* C8 as stated: a stream that is 0 but for one clean pulse above the      *)
(* floor, fed to a fresh detector, gives exactly one detection.            *)
(***************************************************************************)
C8_OnePulseOneDetection ==
    ( /\ accepted = MaxSamples
      /\ Len(sent) = 1
      /\ sent[1].shape \in CleanPulses
      /\ quiet > refractory_period )
    => Len(detections) = 1

(***************************************************************************)
(* C9 as stated: N equal clean pulses, each more than refractory_period    *)
(* samples after the previous one, give exactly N detections.              *)
(***************************************************************************)
C9_OneDetectionPerPulse ==
    ( /\ accepted = MaxSamples
      /\ sent # <<>>
      /\ \A i \in 1 .. Len(sent) :
            /\ sent[i].shape \in CleanPulses
            /\ sent[i].shape = sent[1].shape
            /\ i > 1 => sent[i].after >= refractory_period
      /\ pending = <<>>
      /\ quiet > integration_window )
    => Len(detections) = Len(sent)

(***************************************************************************)
(* C10 as stated: when every peak stays below the floor there is no        *)
(* detection, noise_peak_value rises above 0 and threshold_value stays     *)
(* above it.                                                               *)
(***************************************************************************)
C10_NoiseLevelRises ==
    ( /\ accepted = MaxSamples
      /\ sent # <<>>
      /\ \A i \in 1 .. Len(sent) : sent[i].shape \in LowPulses )
    => /\ detections = <<>>
       /\ noise_peak_value > 0
       /\ threshold_value >= noise_peak_value

(***************************************************************************)
(* C10 amended: when every peak stays below the floor there is no          *)
(* detection and the three levels stay at their initial 0: findpeaks       *)
(* removes the peaks below findpeaks_limit, so none is classified.         *)
(***************************************************************************)
C10_BelowFloorLeavesLevels ==
    (\A i \in 1 .. Len(sent) : sent[i].shape \in LowPulses)
    => /\ detections = <<>>
       /\ signal_peak_value = 0
       /\ noise_peak_value = 0
       /\ threshold_value = 0

\* eligible passes with a pulse below the floor in the analysed window
C10_Witness ==
    /\ sent # <<>>
    /\ \A i \in 1 .. Len(sent) : sent[i].shape \in LowPulses
    /\ pending = <<>>
    /\ quiet > integration_window
    /\ call.outcome = "no_peak"
    /\ accepted > number_of_samples_stored

\* the outcomes of a line that reached detect_qrs: a pipeline pass ran
PassOutcomes == {"refractory", "no_peak", "SIGNAL", "NOISE"}

(***************************************************************************)
(* C11 as stated: the candidates handed to detect_qrs are exactly the      *)
(* candidates of findpeaks whose index is among the last detection_window  *)
(* positions of the integrated signal, for every fill level of the window. *)
(***************************************************************************)
C11_TailCandidates ==
    call.outcome \in PassOutcomes =>
        call.peaks.indices =
            SelectSeq(call.peaks.found,
                      LAMBDA i : i >= call.peaks.integrated_length - detection_window)

(***************************************************************************)
(* findpeaks on its own: every short signal over a few values, every       *)
(* spacing and limit; call holds the arguments and then the result.        *)
(***************************************************************************)
MaxSignalLen == 5
MaxSignalValue == 2
MaxSpacing == 3

Signals == UNION {[1 .. n -> 0 .. MaxSignalValue] : n \in 1 .. MaxSignalLen}

InitFindpeaks ==
    /\ \E data \in Signals, spacing \in 1 .. MaxSpacing, limit \in 0 .. MaxSignalValue :
          call = [line |-> Measurement(0), outcome |-> "given", peaks |-> NoPeaks,
                  data |-> data, spacing |-> spacing, limit |-> limit]
    /\ signal_freq = default_signal_freq
    /\ most_recent_measurements = initial_measurements
    /\ time_since_last_detected_qrs = 0
    /\ signal_peak_value = 0
    /\ noise_peak_value = 0
    /\ threshold_value = 0
    /\ raised = "none"
    /\ ingested = <<>>
    /\ detections = <<>>
    /\ sent = <<>>
    /\ quiet = 0
    /\ pending = <<>>
    /\ twin = NoTwin

CallFindpeaks ==
    /\ call.outcome = "given"
    /\ \E ind \in {findpeaks(call.data, call.spacing, call.limit)} :
          call' = [call EXCEPT !.outcome = "findpeaks",
                               !.peaks = [NoPeaks EXCEPT
                                             !.integrated_length = Len(call.data),
                                             !.found = ind]]
    /\ UNCHANGED <<signal_freq, engine, raised, ingested, detections, stream, twin>>

NextFindpeaks == CallFindpeaks

SpecFindpeaks == InitFindpeaks /\ [][NextFindpeaks]_vars

\* the signal at position j (from 0), positions outside it reading as the
\* nearest boundary value minus epsilon
Reading(data, j) ==
    IF j < 0 THEN data[1] - findpeaks_epsilon
    ELSE IF j >= Len(data) THEN data[Len(data)] - findpeaks_epsilon
    ELSE data[j + 1]

\* strictly greater than the signal at every offset 1 .. spacing, both sides
StrictPeak(data, spacing, i) ==
    \A d \in 1 .. spacing :
        /\ data[i + 1] > Reading(data, i - d)
        /\ data[i + 1] > Reading(data, i + d)

C13_PeaksApart ==
    call.outcome = "findpeaks" =>
        \A a, b \in 1 .. Len(call.peaks.found) :
            a < b => call.peaks.found[b] - call.peaks.found[a] > call.spacing

\* two peaks returned, as close as the spacing allows
C13_Witness ==
    /\ call.outcome = "findpeaks"
    /\ call.spacing > 1
    /\ Len(call.peaks.found) = 2
    /\ call.peaks.found[2] - call.peaks.found[1] = call.spacing + 1

(***************************************************************************)
(* detect_qrs on its own: a fresh detector whose every pass is handed any  *)
(* list of one or two candidates, or none.  The samples behind the         *)
(* candidates are left out: each pass counts as one accepted sample of     *)
(* 0 V.  The candidates have indices above number_of_samples_stored -      *)
(* detection_window, more than findpeaks_spacing apart, and values above   *)
(* findpeaks_limit, as extract_peaks hands them over.                      *)
(***************************************************************************)
MaxPasses == 245

PeakValues == {findpeaks_limit + 1, 16000000}

CandidateLists ==
    {[indices |-> <<>>, values |-> <<>>]}
    \cup {[indices |-> <<200>>, values |-> <<v>>] : v \in PeakValues}
    \cup {[indices |-> <<161, 212>>, values |-> <<v, w>>] : v, w \in PeakValues}

Pass ==
    /\ accepted < MaxPasses
    /\ \E c \in CandidateLists :
       \E r \in {detect_qrs(time_since_last_detected_qrs, signal_peak_value,
                            noise_peak_value, threshold_value, c.indices, c.values)} :
          /\ time_since_last_detected_qrs' = r.time
          /\ signal_peak_value' = r.signal
          /\ noise_peak_value' = r.noise
          /\ threshold_value' = r.threshold
          /\ detections' = IF r.detected
                           THEN Append(detections, accepted + 1)
                           ELSE detections
          /\ call' = [line |-> Measurement(0), outcome |-> r.outcome,
                      peaks |-> [integrated_length |->
                                     number_of_samples_stored + integration_window - 2,
                                 found |-> c.indices,
                                 indices |-> c.indices,
                                 values |-> c.values]]
    /\ most_recent_measurements' = deque_append(most_recent_measurements, 0)
    /\ ingested' = Append(ingested, 0)
    /\ UNCHANGED <<signal_freq, raised, stream, twin>>

NextDetect == Pass

SpecDetect == Init /\ [][NextDetect]_vars

(***************************************************************************)
(* C14: of several candidates handed to an eligible pass only the one with *)
(* the largest index is classified: the pass ends as it would with that    *)
(* candidate alone, with at most one detection; the earlier candidates are *)
(* neither reported nor counted into noise_peak_value.                     *)
(***************************************************************************)
C14_OnlyLastCandidate ==
    [][LET indices == call'.peaks.indices
           values == call'.peaks.values
           last == Len(indices)
           alone == detect_qrs(time_since_last_detected_qrs, signal_peak_value,
                               noise_peak_value, threshold_value,
                               <<indices[last]>>, <<values[last]>>)
       IN ( /\ call'.outcome \in {"SIGNAL", "NOISE"}
            /\ last > 1 )
          => /\ \A k \in 1 .. (last - 1) : indices[k] < indices[last]
             /\ call'.outcome = alone.outcome
             /\ time_since_last_detected_qrs' = alone.time
             /\ signal_peak_value' = alone.signal
             /\ noise_peak_value' = alone.noise
             /\ threshold_value' = alone.threshold
             /\ detections' = IF alone.detected
                              THEN Append(detections, accepted + 1)
                              ELSE detections]_vars

\* a pass classified NOISE by its last candidate although an earlier
\* candidate of the same pass exceeds even signal_peak_value
C14_Witness ==
    /\ call.outcome = "NOISE"
    /\ Len(call.peaks.values) = 2
    /\ call.peaks.values[1] > signal_peak_value
    /\ call.peaks.values[2] < threshold_value

(***************************************************************************)
(* C15: a pass changes a level or reports a detection only if it is        *)
(* eligible (the incremented count exceeds refractory_period) and is       *)
(* handed a candidate; a refractory pass, whatever its candidates, and an  *)
(* eligible pass without candidate leave the three levels as they are,     *)
(* report nothing and advance the count by 1.                              *)
(***************************************************************************)
C15_OnlyEligibleWithCandidate ==
    [][( /\ call'.outcome \in PassOutcomes
         /\ \/ time_since_last_detected_qrs + 1 <= refractory_period
            \/ Len(call'.peaks.indices) = 0 )
       => /\ UNCHANGED levels
          /\ UNCHANGED detections
          /\ time_since_last_detected_qrs' = time_since_last_detected_qrs + 1]_vars

\* a refractory pass after a detection that was handed a candidate above
\* the threshold
C15_Witness ==
    /\ call.outcome = "refractory"
    /\ detections # <<>>
    /\ call.peaks.values # <<>>
    /\ call.peaks.values[Len(call.peaks.values)] > threshold_value
    /\ threshold_value > 0

(***************************************************************************)
(* C16: in every reachable state threshold_value = noise_peak_value +      *)
(* 0.25 * (signal_peak_value - noise_peak_value), to the resolution of the *)
(* levels: initially, and after a SIGNAL and a NOISE classification alike. *)
(***************************************************************************)
C16_ThresholdOfLevels ==
    LET weighted == signal_peak_value - noise_peak_value
        above == threshold_value - noise_peak_value
    IN IF weighted >= 0
       THEN /\ signal_noise_diff_weight * above <= weighted
            /\ weighted < signal_noise_diff_weight * (above + 1)
       ELSE /\ signal_noise_diff_weight * above >= weighted
            /\ weighted > signal_noise_diff_weight * (above - 1)

\* a SIGNAL classification with the noise level already above 0
C16_Witness ==
    /\ call.outcome = "SIGNAL"
    /\ noise_peak_value > 0
    /\ threshold_value > noise_peak_value
    /\ signal_peak_value > threshold_value

(***************************************************************************)
(* C19: in every reachable state 0 <= noise_peak_value <= threshold_value  *)
(* <= signal_peak_value, the candidates having values above                *)
(* findpeaks_limit.                                                        *)
(***************************************************************************)
C19_LevelsOrdered ==
    /\ 0 <= noise_peak_value
    /\ noise_peak_value <= threshold_value
    /\ threshold_value <= signal_peak_value

\* a NOISE classification that has raised the noise level, strictly below
\* the threshold
C19_Witness ==
    /\ call.outcome = "NOISE"
    /\ 0 < noise_peak_value
    /\ noise_peak_value < threshold_value
    /\ threshold_value < signal_peak_value
    /\ Len(detections) = 1
    /\ time_since_last_detected_qrs > refractory_period + 1

(***************************************************************************)
(* C20: a fresh detector starts refractory: during its first               *)
(* refractory_period accepted samples there is no detection and no level   *)
(* changes, whatever candidates the passes are handed; no detection is     *)
(* earlier than accepted sample refractory_period + 1.                     *)
(***************************************************************************)
C20_StartsRefractory ==
    /\ accepted <= refractory_period =>
          /\ detections = <<>>
          /\ signal_peak_value = 0
          /\ noise_peak_value = 0
          /\ threshold_value = 0
    /\ \A k \in 1 .. Len(detections) : detections[k] >= refractory_period + 1

\* the last of the first refractory_period passes, handed a candidate
C20_Witness ==
    /\ accepted = refractory_period
    /\ call.outcome = "refractory"
    /\ call.peaks.values # <<>>
    /\ detections = <<>>

(***************************************************************************)
(* C17: on a pass over a window of L values the filtered signal has L      *)
(* values, the differentiated and the squared signal L - 1, and the        *)
(* integrated signal (L - 1) + integration_window - 1, whatever the        *)
(* values: 213 for a full window of 200.                                   *)
(***************************************************************************)
C17_SignalLengths ==
    call.outcome \in PassOutcomes =>
        LET L == Len(most_recent_measurements)
            filtered_signal == bandpass_filter(most_recent_measurements)
            differentiated_signal == ediff1d(filtered_signal)
            squared_signal == square(differentiated_signal)
        IN /\ Len(filtered_signal) = L
           /\ Len(differentiated_signal) = L - 1
           /\ Len(squared_signal) = L - 1
           /\ call.peaks.integrated_length = (L - 1) + integration_window - 1
           /\ L = 200 => call.peaks.integrated_length = 213

\* a pass over a full window that holds a pulse
C17_Witness ==
    /\ call.outcome \in PassOutcomes
    /\ Len(most_recent_measurements) = number_of_samples_stored
    /\ call.peaks.integrated_length = 213
    /\ call.peaks.found # <<>>

====
